---- MODULE Spec2Model ----
(***************************************************************************)
(* Model of UsersService (src/src/users/users.service.ts): the in-memory   *)
(* user store of the nest-lesson repository and its five operations.       *)
(*                                                                         *)
(* JavaScript numbers are modelled as integers plus the one non-finite     *)
(* value the code can produce, -Infinity (Math.max of no arguments).       *)
(* A DTO is a function from the keys it carries to their values, so that   *)
(* "key supplied" and "value truthy" are different things.                 *)
(***************************************************************************)
EXTENDS Integers, Sequences, FiniteSets, TLC

VARIABLES
    users,      \* UsersService.users: the array of User objects
    before,     \* history: users as it was when the last call started
    call,       \* history: the call of the service the last step made, [op, id, dto]
                \* (op "none": the step made no call)
    result,     \* history: what the last call returned or threw
    repeated,   \* history: "no", or the last call repeats the one before it, which
                \* had changed the store ("changed") or had not ("same")
    run,        \* history: number of createUser calls since the store was empty (0: none)
    issued,     \* history: <<id>> of the latest createUser's user, <<>> before the first
    http,       \* the last HTTP request and the response it was answered with
    tasks,      \* the calls in flight on the event loop, by slot
    running     \* the slot of the call the JavaScript thread is inside, 0 if none

vars == <<users, before, call, result, repeated, run, issued, http, tasks, running>>

----------------------------------------------------------------------------
(* Bounds *)

MaxUsers == 4       \* createUser is not called on a store of this length
MaxId == 4          \* createUser is not called once this id is in the store
MaxTasks == 2       \* calls that can be in flight at once

----------------------------------------------------------------------------
(* JavaScript values *)

\* -Infinity, the value of Math.max() with no arguments; below every id.
NegInf == -1000

\* An id computed as maxId, the + 1 forgotten.
JsAddDropped(x, y) == x

\* x + y on JavaScript numbers: -Infinity + 1 is -Infinity.
JsAdd(x, y) == IF x = NegInf THEN NegInf ELSE x + y

\* Math.max(...xs) of a sequence of numbers.
RECURSIVE MathMax(_)
MathMax(xs) ==
    IF xs = <<>> THEN NegInf
    ELSE LET m == MathMax(Tail(xs))
         IN  IF Head(xs) > m THEN Head(xs) ELSE m

\* A test of the field against undefined only: every key the DTO carries
\* counts, whatever its value.
TruthySupplied(dto, key) == key \in DOMAIN dto

\* Truthiness of the values a DTO field can hold: "" and 0 are falsy,
\* a missing key reads as undefined, which is falsy.
Truthy(dto, key) ==
    /\ key \in DOMAIN dto
    /\ dto[key] # (IF key = "age" THEN 0 ELSE "")

----------------------------------------------------------------------------
(* The store *)

SeedUsers ==
    << [id |-> 1, name |-> "Tyler", age |-> 26, role |-> "TEACHER"],
       [id |-> 2, name |-> "John",  age |-> 33, role |-> "STUDENT"],
       [id |-> 3, name |-> "Stan",  age |-> 50, role |-> "ADMIN"] >>

\* Values of a call's outcome.
NoDto == <<>>
Void == [error |-> "none", value |-> <<>>]
Returned(v) == [error |-> "none", value |-> v]
NotFoundException == [error |-> "user with that id not found", value |-> <<>>]

\* Array.find: the index of the first user with that id, 0 if none.
FindIndex(us, id) ==
    IF \E i \in 1..Len(us) : us[i].id = id
    THEN CHOOSE i \in 1..Len(us) :
            /\ us[i].id = id
            /\ \A j \in 1..(i - 1) : us[j].id # id
    ELSE 0

\* A getUser that takes the id for a position: this.users[id - 1].
getUserByIndex(us, id) ==
    IF id \in 1..Len(us) THEN <<us[id]>> ELSE <<>>

\* getUser(id): <<user>> when found, <<>> for undefined.
getUser(us, id) ==
    LET i == FindIndex(us, id) IN IF i = 0 THEN <<>> ELSE <<us[i]>>

\* A createUser that numbers the new user by the length of the array.
NewUserByLength(us, dto) == dto @@ [id |-> Len(us) + 1]

\* The user createUser builds: { id: maxId + 1, ...createUserDto }.
NewUser(us, dto) ==
    LET maxId == MathMax([i \in 1..Len(us) |-> us[i].id])
    IN  dto @@ [id |-> JsAdd(maxId, 1)]

\* An updateUser that stores the patched user as a new one, under the
\* next id.
PatchedRenumbered(user, dto) ==
    [id   |-> JsAdd(user.id, 1),
     name |-> IF Truthy(dto, "name") THEN dto.name ELSE user.name,
     age  |-> IF Truthy(dto, "age")  THEN dto.age  ELSE user.age,
     role |-> IF Truthy(dto, "role") THEN dto.role ELSE user.role]

\* An updateUser that takes the patch's age for a number of years to add:
\* user.age += updateUserDto.age.
PatchedAgeAdded(user, dto) ==
    [id   |-> user.id,
     name |-> IF Truthy(dto, "name") THEN dto.name ELSE user.name,
     age  |-> IF Truthy(dto, "age")  THEN user.age + dto.age ELSE user.age,
     role |-> IF Truthy(dto, "role") THEN dto.role ELSE user.role]

\* An updateUser that replaces the stored user by { id, ...updateUserDto }:
\* the fields the patch does not carry are lost.
PatchedReplaced(user, dto) == dto @@ [id |-> user.id]

\* An updateUser with the guarded assignments of name and age only, the
\* one of role forgotten.
PatchedNameAge(user, dto) ==
    [id   |-> user.id,
     name |-> IF Truthy(dto, "name") THEN dto.name ELSE user.name,
     age  |-> IF Truthy(dto, "age")  THEN dto.age  ELSE user.age,
     role |-> user.role]

\* The three guarded assignments of updateUser.
Patched(user, dto) ==
    [id   |-> user.id,
     name |-> IF Truthy(dto, "name") THEN dto.name ELSE user.name,
     age  |-> IF Truthy(dto, "age")  THEN dto.age  ELSE user.age,
     role |-> IF Truthy(dto, "role") THEN dto.role ELSE user.role]

\* A deleteUser written as splice(findIndex(...), 1): an index of -1, when
\* no user has the id, removes the last element.
FilteredBySplice(us, id) ==
    LET i == FindIndex(us, id)
        k == IF i = 0 THEN Len(us) ELSE i
    IN  IF us = <<>> THEN us
        ELSE SubSeq(us, 1, k - 1) \o SubSeq(us, k + 1, Len(us))

\* A deleteUser that overwrites the user found with the last one and pops
\* the array.
FilteredSwapRemove(us, id) ==
    LET i == FindIndex(us, id)
    IN  IF i = 0 THEN us
        ELSE SubSeq([us EXCEPT ![i] = us[Len(us)]], 1, Len(us) - 1)

\* A deleteUser whose test is inverted, filter((user) => user.id === id):
\* it keeps the users it should remove.
FilteredInverted(us, id) == SelectSeq(us, LAMBDA u : u.id = id)

\* Array.filter((user) => user.id !== id).
Filtered(us, id) == SelectSeq(us, LAMBDA u : u.id # id)

\* A getUsers that returns a first page of three users.
ListOutcomePaged(us) ==
    Returned(IF Len(us) > 3 THEN SubSeq(us, 1, 3) ELSE us)

\* What getUsers returns: return this.users.
ListOutcome(us) == Returned(us)

\* A getUser that throws NotFoundException when it finds no user.
GetOutcomeOrThrow(us, id) ==
    IF getUser(us, id) = <<>> THEN NotFoundException
    ELSE Returned(getUser(us, id))

\* What getUser returns: the user found, or undefined.
GetOutcome(us, id) == Returned(getUser(us, id))

\* A deleteUser with the error handling of updateUser: it throws when no
\* user has the id.
DeleteOutcomeChecked(us, id) ==
    IF FindIndex(us, id) = 0 THEN NotFoundException ELSE Void

\* What deleteUser returns: nothing, whether or not a user had the id.
DeleteOutcome(us, id) == Void

----------------------------------------------------------------------------
(* Inputs *)

Ids == {NegInf} \cup (0..MaxId)

CreateDtos ==
    { [name |-> "Alice", age |-> 22, role |-> "STUDENT"] }

UpdateDtos ==
    { NoDto,
      [age |-> 27],
      [age |-> 0],
      [name |-> ""],
      [name |-> "Bob", age |-> 27, role |-> "ADMIN"] }

----------------------------------------------------------------------------
(* The HTTP boundary: ParseIntPipe on :id, the global ValidationPipe on    *)
(* the body, the controller's handlers, and the status of the answer.      *)

Roles == {"TEACHER", "STUDENT", "ADMIN"}

DtoKeys == {"name", "age", "role"}

DigitChars == <<"0", "1", "2", "3", "4", "5", "6", "7", "8", "9">>

IsDigit(c) == \E n \in 1..10 : DigitChars[n] = c

DigitValue(c) == (CHOOSE n \in 1..10 : DigitChars[n] = c) - 1

\* ParseIntPipe accepts a parameter that matches /^-?\d+$/.
IsNumeric(raw) ==
    LET digits == IF raw # <<>> /\ Head(raw) = "-" THEN Tail(raw) ELSE raw
    IN  /\ digits # <<>>
        /\ \A n \in 1..Len(digits) : IsDigit(digits[n])

\* parseInt(value, 10) of a parameter that IsNumeric accepts.
RECURSIVE DecimalValue(_)
DecimalValue(digits) ==
    IF digits = <<>> THEN 0
    ELSE 10 * DecimalValue(SubSeq(digits, 1, Len(digits) - 1))
            + DigitValue(digits[Len(digits)])

ParseInt(raw) ==
    IF Head(raw) = "-" THEN 0 - DecimalValue(Tail(raw)) ELSE DecimalValue(raw)

\* A CreateUserDto whose age has no @Min(13).
ValidFieldNoMin(key, v) ==
    IF key = "name" THEN v # ""
    ELSE IF key = "age" THEN TRUE
    ELSE v \in Roles

\* The decorators of CreateUserDto: @MinLength(1) name, @Min(13) age,
\* @IsEnum([...]) role.
ValidField(key, v) ==
    IF key = "name" THEN v # ""
    ELSE IF key = "age" THEN v >= 13
    ELSE v \in Roles

\* ValidationPipe on a CreateUserDto body: every field is required.
ValidateCreate(body) ==
    \A k \in DtoKeys : k \in DOMAIN body /\ ValidField(k, body[k])

\* An UpdateUserDto that carries no validation rules.
ValidateUpdateNothing(body) == TRUE

\* ValidationPipe on an UpdateUserDto body: PartialType makes every field
\* optional and keeps its rules.
ValidateUpdate(body) ==
    \A k \in DtoKeys : k \in DOMAIN body => ValidField(k, body[k])

NoRaw == <<>>

NoRequest ==
    [method |-> "none", id |-> NoRaw, body |-> NoDto,
     status |-> 0, message |-> "", reply |-> <<>>]

\* The answer to a request a pipe rejected: 400 Bad Request.
BadRequest(method, raw, body) ==
    [method |-> method, id |-> raw, body |-> body,
     status |-> 400, message |-> "Bad Request", reply |-> <<>>]

\* The answer to a request whose handler returned or threw: what it
\* returned with 200 (201 for POST), or NotFoundException as 404.
Answer(method, raw, body, outcome) ==
    [method |-> method, id |-> raw, body |-> body,
     status |-> IF outcome.error # "none" THEN 404
                ELSE IF method = "POST" THEN 201 ELSE 200,
     message |-> IF outcome.error # "none" THEN outcome.error ELSE "",
     reply |-> outcome.value]

\* The :id parameters requests carry: the decimal ids, and two that are
\* not decimal numbers.
NumericRawIds == { <<DigitChars[n + 1]>> : n \in 0..MaxId }

RawIds == NumericRawIds \cup { <<"a", "b", "c">>, <<"1", ".", "5">> }

PostBodies ==
    CreateDtos \cup
    { [name |-> "", age |-> 22, role |-> "STUDENT"],
      [name |-> "Alice", age |-> 12, role |-> "PARENT"],
      [name |-> "Alice"] }

\* The PATCH requests, <<:id, body>>: every decimal id with the bodies of
\* UpdateDtos that name, age and role allow, and requests that are wrong
\* in the id, in the body, or in both.
PatchRequests ==
    (NumericRawIds \X
        { NoDto, [age |-> 27], [name |-> "Bob", age |-> 27, role |-> "ADMIN"] })
    \cup
    { << <<"a", "b", "c">>, [age |-> 27] >>,
      << <<"1">>, [age |-> 12] >>,
      << <<"1">>, [age |-> 0] >>,
      << <<"3">>, [name |-> ""] >>,
      << <<"2">>, [role |-> "PARENT"] >>,
      << <<"1", ".", "5">>, [name |-> ""] >> }

----------------------------------------------------------------------------
(* Calls in flight *)

\* A slot with no call; pc is "idle", "pending" (submitted, not started),
\* "read" (createUser after its maxId statement) or "done" (returned).
IdleTask ==
    [op |-> "none", id |-> 0, pc |-> "idle", maxId |-> 0, len |-> 0,
     overlaps |-> {}, ret |-> 0]

\* The ids deleteUser is called with while calls are in flight.
TaskIds == 1..MaxId

----------------------------------------------------------------------------
(* History bookkeeping shared by the operations *)

Record(op, id, dto, res) ==
    /\ before' = users
    /\ call' = [op |-> op, id |-> id, dto |-> dto]
    /\ result' = res
    /\ repeated' = IF call # [op |-> op, id |-> id, dto |-> dto] THEN "no"
                   ELSE IF users # before THEN "changed" ELSE "same"

----------------------------------------------------------------------------
(* Operations *)

Init ==
    /\ users = SeedUsers
    /\ before = SeedUsers
    /\ call = [op |-> "new", id |-> 0, dto |-> NoDto]
    /\ result = Void
    /\ repeated = "no"
    /\ run = 0
    /\ issued = <<>>
    /\ http = NoRequest
    /\ tasks = [s \in 1..MaxTasks |-> IdleTask]
    /\ running = 0

\* getUsers()
getUsersOp ==
    /\ Record("getUsers", 0, NoDto, ListOutcome(users))
    /\ UNCHANGED <<users, run, issued>>

\* getUser(id)
getUserOp(id) ==
    /\ Record("getUser", id, NoDto, GetOutcome(users, id))
    /\ UNCHANGED <<users, run, issued>>

\* createUser(createUserDto)
createUserOp(dto) ==
    /\ Len(users) < MaxUsers
    /\ \A i \in 1..Len(users) : users[i].id < MaxId
    /\ LET newUser == NewUser(users, dto)
       IN  /\ users' = Append(users, newUser)
           /\ Record("createUser", 0, dto, Returned(<<newUser>>))
           /\ issued' = <<newUser.id>>
    /\ run' = IF users = <<>> THEN 1
              ELSE IF run > 0 THEN run + 1 ELSE 0

\* An updateUser without the if (!user) throw: a missing user is returned
\* as it was found, undefined.
UpdateMissingUndefined == Returned(<<>>)

\* updateUser when getUser found no user: throw new NotFoundException(...).
UpdateMissing == NotFoundException

\* An updateUser that returns a patched copy, { ...user, ...changes }, and
\* leaves the stored user as it was.
updateUserOpDetached(id, dto) ==
    LET i == FindIndex(users, id)
    IN  /\ users' = users
        /\ Record("updateUser", id, dto,
                  IF i = 0 THEN UpdateMissing
                  ELSE Returned(<<Patched(users[i], dto)>>))
        /\ run' = 0
        /\ UNCHANGED issued

\* updateUser(id, updateUserDto)
updateUserOp(id, dto) ==
    LET i == FindIndex(users, id)
    IN  /\ IF i = 0
           THEN /\ users' = users
                /\ Record("updateUser", id, dto, UpdateMissing)
           ELSE /\ users' = [users EXCEPT ![i] = Patched(users[i], dto)]
                /\ Record("updateUser", id, dto, Returned(<<users'[i]>>))
        /\ run' = 0
        /\ UNCHANGED issued

\* deleteUser(id)
deleteUserOp(id) ==
    /\ users' = Filtered(users, id)
    /\ Record("deleteUser", id, NoDto, DeleteOutcome(users, id))
    /\ run' = 0
    /\ UNCHANGED issued

(* The service called directly *)

outside == <<http, tasks, running>>

getUsers == getUsersOp /\ UNCHANGED outside

getUserCall == \E id \in Ids : getUserOp(id) /\ UNCHANGED outside

createUser == \E dto \in CreateDtos : createUserOp(dto) /\ UNCHANGED outside

updateUser ==
    \E id \in Ids, dto \in UpdateDtos : updateUserOp(id, dto) /\ UNCHANGED outside

deleteUser == \E id \in Ids : deleteUserOp(id) /\ UNCHANGED outside

Next ==
    \/ getUsers
    \/ getUserCall
    \/ createUser
    \/ updateUser
    \/ deleteUser

Spec == Init /\ [][Next]_vars

----------------------------------------------------------------------------
(* The service called through UsersController *)

\* A pipe threw BadRequestException: the handler, and with it the service,
\* is not called.
Rejected(method, raw, body) ==
    /\ http' = BadRequest(method, raw, body)
    /\ Record("none", 0, NoDto, Void)
    /\ UNCHANGED <<users, run, issued, tasks, running>>

\* @Get() getUsers()
GetUsersRoute ==
    /\ getUsersOp
    /\ http' = Answer("GET", NoRaw, NoDto, result')
    /\ UNCHANGED <<tasks, running>>

\* @Get(':id') getUser(@Param('id', ParseIntPipe) id)
GetUserRoute ==
    \E raw \in RawIds :
        IF ~IsNumeric(raw) THEN Rejected("GET", raw, NoDto)
        ELSE /\ getUserOp(ParseInt(raw))
             /\ http' = Answer("GET", raw, NoDto, result')
             /\ UNCHANGED <<tasks, running>>

\* @Post() createUser(@Body() createUserDto)
PostUsersRoute ==
    \E body \in PostBodies :
        IF ~ValidateCreate(body) THEN Rejected("POST", NoRaw, body)
        ELSE /\ createUserOp(body)
             /\ http' = Answer("POST", NoRaw, body, result')
             /\ UNCHANGED <<tasks, running>>

\* @Patch(':id') updateUser(@Param('id', ParseIntPipe) id, @Body() updateUserDto)
PatchUserRoute ==
    \E req \in PatchRequests :
        LET raw == req[1]
            body == req[2]
        IN  IF ~IsNumeric(raw) \/ ~ValidateUpdate(body)
            THEN Rejected("PATCH", raw, body)
            ELSE /\ updateUserOp(ParseInt(raw), body)
                 /\ http' = Answer("PATCH", raw, body, result')
                 /\ UNCHANGED <<tasks, running>>

\* A DELETE handler with logic of its own: it looks the user up first and
\* answers 404, without calling deleteUser, when there is none.
DeleteUserRouteChecked ==
    \E raw \in RawIds :
        IF ~IsNumeric(raw) THEN Rejected("DELETE", raw, NoDto)
        ELSE IF getUser(users, ParseInt(raw)) = <<>>
        THEN /\ getUserOp(ParseInt(raw))
             /\ http' = Answer("DELETE", raw, NoDto, NotFoundException)
             /\ UNCHANGED <<tasks, running>>
        ELSE /\ deleteUserOp(ParseInt(raw))
             /\ http' = Answer("DELETE", raw, NoDto, result')
             /\ UNCHANGED <<tasks, running>>

\* @Delete(':id') deleteUser(@Param('id', ParseIntPipe) id)
DeleteUserRoute ==
    \E raw \in RawIds :
        IF ~IsNumeric(raw) THEN Rejected("DELETE", raw, NoDto)
        ELSE /\ deleteUserOp(ParseInt(raw))
             /\ http' = Answer("DELETE", raw, NoDto, result')
             /\ UNCHANGED <<tasks, running>>

NextHttp ==
    \/ GetUsersRoute
    \/ GetUserRoute
    \/ PostUsersRoute
    \/ PatchUserRoute
    \/ DeleteUserRoute

SpecHttp == Init /\ [][NextHttp]_vars

----------------------------------------------------------------------------
(* The service called by requests that are in flight together.  The       *)
(* methods of UsersService are synchronous (no async, no await): the event *)
(* loop starts a call only when the thread is inside no other call, and a  *)
(* call that has started runs its statements to its return.               *)

storeHistory == <<before, call, result, repeated, run, issued>>

InFlight == { s \in 1..MaxTasks : tasks[s].pc \in {"pending", "read"} }

\* A request arrives while others may be in flight.
Submit ==
    \E s \in 1..MaxTasks, op \in {"createUser", "deleteUser"}, id \in TaskIds :
        /\ tasks[s].pc = "idle"
        /\ op = "createUser" => id = 1
        /\ tasks' = [tasks EXCEPT ![s] =
                        [IdleTask EXCEPT !.op = op,
                                         !.id = IF op = "createUser" THEN 0 ELSE id,
                                         !.pc = "pending",
                                         !.overlaps = InFlight]]
        /\ UNCHANGED <<users, storeHistory, http, running>>

\* A call is started only by a thread that is inside no call.
ThreadFree == running = 0

\* createUser, first statement: const maxId = Math.max(...).
BeginCreate ==
    \E s \in 1..MaxTasks :
        /\ ThreadFree
        /\ tasks[s].pc = "pending"
        /\ tasks[s].op = "createUser"
        /\ Len(users) < MaxUsers
        /\ \A i \in 1..Len(users) : users[i].id < MaxId
        /\ tasks' = [tasks EXCEPT ![s].pc = "read",
                        ![s].maxId = MathMax([i \in 1..Len(users) |-> users[i].id]),
                        ![s].len = Len(users)]
        /\ running' = s
        /\ UNCHANGED <<users, storeHistory, http>>

\* createUser, the rest: build newUser from maxId, push it, return it.
EndCreate ==
    \E s \in 1..MaxTasks, dto \in CreateDtos :
        /\ running = s
        /\ tasks[s].pc = "read"
        /\ LET newUser == dto @@ [id |-> JsAdd(tasks[s].maxId, 1)]
           IN  /\ users' = Append(users, newUser)
               /\ Record("createUser", 0, dto, Returned(<<newUser>>))
               /\ issued' = <<newUser.id>>
               /\ tasks' = [tasks EXCEPT ![s].pc = "done", ![s].ret = newUser.id]
        /\ run' = IF users = <<>> THEN 1
                  ELSE IF run > 0 THEN run + 1 ELSE 0
        /\ running' = 0
        /\ UNCHANGED http

\* deleteUser: its one statement.
RunDelete ==
    \E s \in 1..MaxTasks :
        /\ ThreadFree
        /\ tasks[s].pc = "pending"
        /\ tasks[s].op = "deleteUser"
        /\ deleteUserOp(tasks[s].id)
        /\ tasks' = [tasks EXCEPT ![s].pc = "done", ![s].len = Len(users)]
        /\ UNCHANGED <<http, running>>

\* The answers were sent: the slots are free for new requests.
Clear ==
    /\ InFlight = {}
    /\ \E s \in 1..MaxTasks : tasks[s].pc = "done"
    /\ tasks' = [s \in 1..MaxTasks |-> IdleTask]
    /\ UNCHANGED <<users, storeHistory, http, running>>

NextConcurrent ==
    \/ Submit
    \/ BeginCreate
    \/ EndCreate
    \/ RunDelete
    \/ Clear

SpecConcurrent == Init /\ [][NextConcurrent]_vars

----------------------------------------------------------------------------
(* Notions the properties are stated in *)

IdsOf(us) == { us[i].id : i \in 1..Len(us) }

Has(us, id) == id \in IdsOf(us)

\* The user a call returned, when it returned one.
ReturnedUser == result.value[1]

ReturnsUser == result.error = "none" /\ Len(result.value) = 1

----------------------------------------------------------------------------
(* C1: in every reachable state the ids of the users in the store are      *)
(* pairwise distinct.                                                      *)
C1_IdsPairwiseDistinct ==
    \A i, j \in 1..Len(users) : i # j => users[i].id # users[j].id

(* C2: starting from the empty store, the n-th createUser in a row         *)
(* returns id n, so N calls return 1, 2, ..., N in call order.             *)
C2_CreateOnEmptyCountsFromOne ==
    (call.op = "createUser" /\ run > 0) => ReturnedUser.id = run

(* C3: createUser on a non-empty store returns a user whose id is the      *)
(* largest id in the store plus 1 (in the arithmetic of the code's         *)
(* numbers) and whose name, age and role are the supplied ones; the user   *)
(* is appended as the last element and the earlier ones are unchanged.     *)
C3_CreateAppendsMaxPlusOne ==
    (call.op = "createUser" /\ before # <<>>) =>
        /\ ReturnsUser
        /\ \E m \in IdsOf(before) :
              /\ \A x \in IdsOf(before) : x <= m
              /\ ReturnedUser.id = JsAdd(m, 1)
        /\ ReturnedUser.name = call.dto.name
        /\ ReturnedUser.age = call.dto.age
        /\ ReturnedUser.role = call.dto.role
        /\ Len(users) = Len(before) + 1
        /\ users[Len(users)] = ReturnedUser
        /\ \A i \in 1..Len(before) : users[i] = before[i]

\* createUser ran on a store with a gap below its largest id.
C3_Witness ==
    /\ call.op = "createUser"
    /\ before # <<>>
    /\ ReturnedUser.id > Len(users)
    /\ users[Len(users)] = ReturnedUser

(* C4: every createUser returns an id strictly greater than the id the     *)
(* createUser before it returned (hence than every id returned earlier),   *)
(* so an id that was assigned is never assigned again.                     *)
C4_CreateIdsStrictlyIncrease ==
    [][(call'.op = "createUser" /\ issued # <<>>) => issued'[1] > issued[1]]_vars

(* C5: a getUser(r.id) that immediately follows the createUser that        *)
(* returned r returns a user equal to r.                                   *)
C5_GetAfterCreateReturnsCreated ==
    [][(/\ call.op = "createUser"
        /\ call'.op = "getUser"
        /\ call'.id = ReturnedUser.id) => result' = result]_vars

(* C6: updateUser on an existing id sets exactly the fields whose key is   *)
(* in the patch to the patch's values, leaves the other fields and the     *)
(* other users as they were, and returns the updated user.                 *)
C6_UpdateSetsExactlySuppliedFields ==
    (call.op = "updateUser" /\ Has(before, call.id)) =>
        /\ Len(users) = Len(before)
        /\ \E i \in 1..Len(before) :
              /\ before[i].id = call.id
              /\ users[i].id = before[i].id
              /\ \A k \in {"name", "age", "role"} :
                    users[i][k] = IF k \in DOMAIN call.dto
                                  THEN call.dto[k] ELSE before[i][k]
              /\ \A j \in 1..Len(before) : j # i => users[j] = before[j]
              /\ result = Returned(<<users[i]>>)

(* C7: updateUser with an id that is not in the store fails with           *)
(* NotFound, message 'user with that id not found', for every patch, and   *)
(* the store is as it was before the call.                                 *)
C7_UpdateMissingFailsUnchanged ==
    (call.op = "updateUser" /\ ~Has(before, call.id)) =>
        /\ result.error = "user with that id not found"
        /\ result.value = <<>>
        /\ users = before

\* updateUser with a non-empty patch ran on a non-empty store without the id.
C7_Witness ==
    /\ call.op = "updateUser"
    /\ ~Has(before, call.id)
    /\ before # <<>>
    /\ Truthy(call.dto, "age")
    /\ result.error # "none"

(* C8: deleteUser on an id in the store removes exactly one user, the one  *)
(* with that id; the list is 1 shorter and the others keep their values    *)
(* and their order.                                                        *)
C8_DeletePresentRemovesExactlyOne ==
    (call.op = "deleteUser" /\ Has(before, call.id)) =>
        /\ Len(users) = Len(before) - 1
        /\ \E i \in 1..Len(before) :
              /\ before[i].id = call.id
              /\ users = SubSeq(before, 1, i - 1)
                            \o SubSeq(before, i + 1, Len(before))

(* C9: deleteUser on an id that is not in the store does not fail and      *)
(* leaves the users and their order as they were, the empty store          *)
(* included.                                                               *)
C9_DeleteMissingIsNoOp ==
    (call.op = "deleteUser" /\ ~Has(before, call.id)) =>
        /\ result.error = "none"
        /\ users = before

\* deleteUser of a missing id ran on a store that still holds users.
C9_Witness ==
    /\ call.op = "deleteUser"
    /\ ~Has(before, call.id)
    /\ Len(before) >= 2

\* deleteUser ran on the empty store.
C9_WitnessEmpty == call.op = "deleteUser" /\ before = <<>>

(* C10: deleteUser is idempotent: a second deleteUser(id) right after      *)
(* the first leaves the store as the first left it.                        *)
C10_DeleteTwiceIsDeleteOnce ==
    (call.op = "deleteUser" /\ repeated # "no") => users = before

\* The second of two deleteUser(id) in a row, the first having removed a user.
C10_Witness ==
    /\ call.op = "deleteUser"
    /\ repeated = "changed"
    /\ users # <<>>

(* C11: getUser never fails; it returns a stored user whose id is the      *)
(* argument when there is one, and undefined when there is none.           *)
C11_GetReturnsUserOrUndefined ==
    call.op = "getUser" =>
        /\ result.error = "none"
        /\ IF \E i \in 1..Len(before) : before[i].id = call.id
           THEN /\ Len(result.value) = 1
                /\ ReturnedUser.id = call.id
                /\ \E i \in 1..Len(before) : before[i] = ReturnedUser
           ELSE result.value = <<>>

\* getUser found a user that is not at the position its id names.
C11_Witness ==
    /\ call.op = "getUser"
    /\ Len(result.value) = 1
    /\ call.id > 1
    /\ users[1] = ReturnedUser

\* getUser returned undefined on a store that holds users.
C11_WitnessMissing ==
    /\ call.op = "getUser"
    /\ result.value = <<>>
    /\ users # <<>>

(* C12: getUsers and getUser are read-only: the users and their order are *)
(* as before the call; getUsers returns the whole current sequence.        *)
C12_ReadsLeaveStoreUnchanged ==
    /\ call.op \in {"getUsers", "getUser"} => users = before
    /\ call.op = "getUsers" =>
          /\ result.error = "none"
          /\ Len(result.value) = Len(users)
          /\ \A i \in 1..Len(users) : result.value[i] = users[i]

\* getUsers ran on a store of four users.
C12_Witness ==
    /\ call.op = "getUsers"
    /\ Len(users) = 4
    /\ Len(result.value) = 4

(* C13: in every reachable state every user's id is a positive integer.    *)
C13_IdsPositiveIntegers ==
    \A i \in 1..Len(users) : users[i].id # NegInf /\ users[i].id >= 1

(* C14: a user's id is immutable: updateUser and the reads leave the ids   *)
(* at every position as they were, createUser leaves the ids of the        *)
(* earlier users as they were, and the users deleteUser leaves are users   *)
(* of before, with their ids.                                              *)
C14_IdsImmutable ==
    /\ call.op \in {"updateUser", "getUser", "getUsers"} =>
          /\ Len(users) = Len(before)
          /\ \A i \in 1..Len(before) : users[i].id = before[i].id
    /\ call.op = "createUser" =>
          \A i \in 1..Len(before) : users[i].id = before[i].id
    /\ call.op = "deleteUser" =>
          \A i \in 1..Len(users) : \E j \in 1..Len(before) : users[i] = before[j]

\* updateUser changed fields of a user.
C14_Witness ==
    /\ call.op = "updateUser"
    /\ result.error = "none"
    /\ users # before

(* C15: behind the validation of the HTTP boundary, where every           *)
(* createUser and updateUser receives fields that passed it, every stored  *)
(* user has a non-empty name, an age of at least 13 and a role among       *)
(* TEACHER, STUDENT, ADMIN.                                                *)
C15_StoredUsersSatisfyConstraints ==
    \A i \in 1..Len(users) :
        /\ users[i].name # ""
        /\ users[i].age >= 13
        /\ users[i].role \in {"TEACHER", "STUDENT", "ADMIN"}

\* A PATCH that passed validation changed a user, after a POST had added one.
C15_Witness ==
    /\ http.method = "PATCH"
    /\ http.status = 200
    /\ users # before
    /\ \E i \in 1..Len(users) : users[i].name = "Alice"

(* C16: updateUser on a missing id is the only call that can fail:         *)
(* getUsers, getUser, createUser and deleteUser return without an error   *)
(* in every state, and so does updateUser on an id in the store.           *)
C16_OnlyUpdateMissingFails ==
    result.error # "none" =>
        /\ call.op = "updateUser"
        /\ \A i \in 1..Len(before) : before[i].id # call.id

\* deleteUser of a missing id returned on the empty store.
C16_Witness ==
    /\ call.op = "deleteUser"
    /\ before = <<>>
    /\ result.error = "none"

\* createUser returned on the empty store.
C16_WitnessCreate ==
    /\ call.op = "createUser"
    /\ before = <<>>
    /\ result.error = "none"

(* C17: the store starts as the three seed users 1 Tyler 26 TEACHER,       *)
(* 2 John 33 STUDENT, 3 Stan 50 ADMIN, in that order, and createUser on    *)
(* that store returns id 4 with the supplied fields and leaves four users. *)
C17_SeedThenCreateReturnsFour ==
    LET seeded(us) ==
            /\ Len(us) = 3
            /\ us[1] = [id |-> 1, name |-> "Tyler", age |-> 26, role |-> "TEACHER"]
            /\ us[2] = [id |-> 2, name |-> "John", age |-> 33, role |-> "STUDENT"]
            /\ us[3] = [id |-> 3, name |-> "Stan", age |-> 50, role |-> "ADMIN"]
    IN  /\ call.op = "new" => seeded(users)
        /\ (call.op = "createUser" /\ seeded(before)) =>
              /\ ReturnedUser = [id |-> 4, name |-> call.dto.name,
                                 age |-> call.dto.age, role |-> call.dto.role]
              /\ Len(users) = 4
              /\ users[4] = ReturnedUser

\* createUser ran on the store as seeded.
C17_Witness ==
    /\ call.op = "createUser"
    /\ before = SeedUsers
    /\ Len(users) = 4

(* C18: PATCH /users/:id on a missing id answers 404 with the message      *)
(* 'user with that id not found'; DELETE /users/:id answers 200 with an    *)
(* empty body whether or not the id exists; GET /users/:id on a missing    *)
(* id answers 200 with an empty body.                                      *)
C18_HttpOutcomes ==
    /\ (http.method = "PATCH" /\ call.op = "updateUser"
            /\ ~Has(before, call.id)) =>
          /\ http.status = 404
          /\ http.message = "user with that id not found"
    /\ (http.method = "DELETE" /\ call.op = "deleteUser") =>
          /\ http.status = 200
          /\ http.reply = <<>>
    /\ (http.method = "GET" /\ call.op = "getUser"
            /\ ~Has(before, call.id)) =>
          /\ http.status = 200
          /\ http.reply = <<>>

\* DELETE of an id that is not in the store was answered.
C18_Witness ==
    /\ http.method = "DELETE"
    /\ call.op = "deleteUser"
    /\ ~Has(before, call.id)
    /\ http.status = 200

\* PATCH of an id that is not in the store was answered 404.
C18_WitnessPatch ==
    /\ http.method = "PATCH"
    /\ call.op = "updateUser"
    /\ ~Has(before, call.id)
    /\ http.status = 404

\* The claim's words for a request the pipes must refuse.
C19_FailsValidation(req) ==
    \/ /\ req.method \in {"POST", "PATCH"}
       /\ \/ "name" \in DOMAIN req.body /\ req.body["name"] = ""
          \/ "age" \in DOMAIN req.body /\ req.body["age"] < 13
          \/ "role" \in DOMAIN req.body
                /\ req.body["role"] \notin {"TEACHER", "STUDENT", "ADMIN"}
    \/ /\ req.id # NoRaw
       /\ \E n \in 1..Len(req.id) : ~IsDigit(req.id[n])

(* C19: a POST or PATCH whose body fails validation, and any request       *)
(* whose :id is not an integer, is answered 400 and the service is not     *)
(* called, so the store is as it was.                                      *)
C19_InvalidRequestAnswered400 ==
    C19_FailsValidation(http) =>
        /\ http.status = 400
        /\ call.op = "none"
        /\ users = before

\* A PATCH with a body that fails validation was answered 400 on a store
\* that earlier requests had changed.
C19_Witness ==
    /\ http.method = "PATCH"
    /\ "age" \in DOMAIN http.body
    /\ http.body["age"] < 13
    /\ http.status = 400
    /\ Len(users) # 3

(* C20: every call of the service runs to completion atomically: while a   *)
(* createUser is between its read of the maximum id and its push, it is    *)
(* the only call that has started and the store still holds what it read;  *)
(* so two createUser calls in flight together on a non-empty store return  *)
(* distinct ids.                                                           *)
C20_CallsAtomicCreatesDistinct ==
    /\ \A s \in 1..MaxTasks :
          tasks[s].pc = "read" =>
            /\ running = s
            /\ \A t \in 1..MaxTasks : t # s => tasks[t].pc # "read"
            /\ Len(users) = tasks[s].len
            /\ \A i \in 1..Len(users) : users[i].id <= tasks[s].maxId
    /\ \A s, t \in 1..MaxTasks :
          (/\ s # t
           /\ tasks[s].pc = "done" /\ tasks[t].pc = "done"
           /\ tasks[s].op = "createUser" /\ tasks[t].op = "createUser"
           /\ s \in tasks[t].overlaps
           /\ tasks[s].len > 0 /\ tasks[t].len > 0)
          => tasks[s].ret # tasks[t].ret

C21_WitnessName ==
    /\ call.op = "updateUser"
    /\ call.dto = [name |-> ""]
    /\ ReturnsUser
    /\ ReturnedUser.name = "Alice"

\* a is b with some of its elements left out, the order kept.
RECURSIVE C22_IsSubsequence(_, _)
C22_IsSubsequence(a, b) ==
    IF a = <<>> THEN TRUE
    ELSE IF b = <<>> THEN FALSE
    ELSE IF Head(a) = Head(b) THEN C22_IsSubsequence(Tail(a), Tail(b))
    ELSE C22_IsSubsequence(a, Tail(b))

(* C22: every operation preserves the order of the users: createUser       *)
(* puts the new user after all the earlier ones, which keep their places;  *)
(* updateUser leaves every user at its position; the users deleteUser      *)
(* leaves are the earlier ones in their earlier order; the reads change    *)
(* nothing.                                                                *)
C22_OrderPreserved ==
    /\ call.op = "createUser" =>
          /\ Len(users) = Len(before) + 1
          /\ SubSeq(users, 1, Len(before)) = before
          /\ users[Len(users)] = ReturnedUser
    /\ call.op = "updateUser" =>
          /\ Len(users) = Len(before)
          /\ \A i \in 1..Len(before) : users[i].id = before[i].id
          /\ Cardinality({ i \in 1..Len(before) : users[i] # before[i] }) <= 1
    /\ call.op = "deleteUser" => C22_IsSubsequence(users, before)
    /\ call.op \in {"getUsers", "getUser"} => users = before

\* deleteUser removed a user that had users on both sides of it.
C22_Witness ==
    /\ call.op = "deleteUser"
    /\ Len(before) >= 3
    /\ Len(users) = Len(before) - 1
    /\ users[1] = before[1]
    /\ users[Len(users)] = before[Len(before)]

(* C23: updateUser changes the stored user in place: after an updateUser   *)
(* that did not fail, the user it returned is the one getUser(id) finds    *)
(* and the one the list holds, at the position the user had before.        *)
C23_UpdateInPlace ==
    (call.op = "updateUser" /\ result.error = "none") =>
        /\ ReturnsUser
        /\ Len(users) = Len(before)
        /\ \E i \in 1..Len(before) :
              /\ before[i].id = call.id
              /\ \A j \in 1..(i - 1) : before[j].id # call.id
              /\ users[i] = ReturnedUser
              /\ users[i].id = call.id
              /\ \A j \in 1..(i - 1) : users[j].id # call.id

\* updateUser changed a user that is not the first of the list.
C23_Witness ==
    /\ call.op = "updateUser"
    /\ result.error = "none"
    /\ users # before
    /\ users[1] = before[1]
    /\ ReturnedUser.name = "Bob"

\* The store a direct call c of the service leaves, made on the store us.
C24_DirectStore(c, us) ==
    IF c.op = "createUser" THEN Append(us, NewUser(us, c.dto))
    ELSE IF c.op = "updateUser" /\ FindIndex(us, c.id) # 0
    THEN [us EXCEPT ![FindIndex(us, c.id)] = Patched(us[FindIndex(us, c.id)], c.dto)]
    ELSE IF c.op = "deleteUser" THEN Filtered(us, c.id)
    ELSE us

(* C24: the controller passes requests through: a request the pipes let    *)
(* through makes exactly the one call of the service its route names       *)
(* (GET /users getUsers, GET /users/:id getUser, POST createUser, PATCH    *)
(* updateUser, DELETE deleteUser) with the id the :id parameter spells     *)
(* and the body as sent; the answer carries what the call returned or the  *)
(* error it threw; and the store is the one the direct call leaves.        *)
C24_ControllerPassesThrough ==
    (http.method # "none" /\ http.status # 400) =>
        /\ call.op = (IF http.method = "POST" THEN "createUser"
                      ELSE IF http.method = "PATCH" THEN "updateUser"
                      ELSE IF http.method = "DELETE" THEN "deleteUser"
                      ELSE IF http.id = NoRaw THEN "getUsers" ELSE "getUser")
        /\ http.id # NoRaw =>
              /\ call.id \in 0..9
              /\ http.id = <<DigitChars[call.id + 1]>>
        /\ call.dto = http.body
        /\ http.reply = result.value
        /\ IF result.error = "none"
           THEN http.status \in {200, 201} /\ http.message = ""
           ELSE http.status = 404 /\ http.message = result.error
        /\ users = C24_DirectStore(call, before)

\* A DELETE removed a user that a POST had added.
C24_Witness ==
    /\ http.method = "DELETE"
    /\ http.status = 200
    /\ call.op = "deleteUser"
    /\ call.id = 4
    /\ Len(users) = Len(before) - 1

\* A PATCH was answered with the error updateUser threw.
C24_WitnessError ==
    /\ http.method = "PATCH"
    /\ call.op = "updateUser"
    /\ result.error # "none"
    /\ http.message = result.error

\* The validation constraints, on the fields a patch supplies.
C25_SuppliedFieldsValid(dto) ==
    /\ "name" \in DOMAIN dto => dto["name"] # ""
    /\ "age" \in DOMAIN dto => dto["age"] >= 13
    /\ "role" \in DOMAIN dto => dto["role"] \in {"TEACHER", "STUDENT", "ADMIN"}

(* C25: for a patch whose supplied fields satisfy the validation           *)
(* constraints, updateUser leaves the store and returns the value that an  *)
(* update applying every field whose key is supplied would: on an id in    *)
(* the store the first user with the id has the supplied fields set, the   *)
(* rest is as before and that user is returned; on a missing id it fails   *)
(* with NotFound and the store is as before.                               *)
C25_ValidPatchTruthyIsSupplied ==
    (call.op = "updateUser" /\ C25_SuppliedFieldsValid(call.dto)) =>
        IF Has(before, call.id)
        THEN /\ Len(users) = Len(before)
             /\ \E i \in 1..Len(before) :
                   /\ before[i].id = call.id
                   /\ \A j \in 1..(i - 1) : before[j].id # call.id
                   /\ users[i] =
                         [k \in {"id", "name", "age", "role"} |->
                             IF k \in DOMAIN call.dto THEN call.dto[k]
                             ELSE before[i][k]]
                   /\ \A j \in 1..Len(before) : j # i => users[j] = before[j]
                   /\ result = [error |-> "none", value |-> <<users[i]>>]
        ELSE /\ users = before
             /\ result.error = "user with that id not found"

\* updateUser with a patch of three valid fields changed the role of a user.
C25_Witness ==
    /\ call.op = "updateUser"
    /\ call.dto = [name |-> "Bob", age |-> 27, role |-> "ADMIN"]
    /\ ReturnsUser
    /\ ReturnedUser.role = "ADMIN"
    /\ \E i \in 1..Len(before) : before[i].id = call.id /\ before[i].role = "STUDENT"

(* C26: after deleteUser(id) no user has the id; an id no user has is      *)
(* still without a user after every getUsers, getUser, updateUser and      *)
(* deleteUser, and after every createUser that returns another id; and as  *)
(* long as no user has the id, getUser(id) returns undefined and           *)
(* updateUser(id, patch) fails with NotFound.  (before is the store of the *)
(* state the call was made in, so this speaks of every step.)              *)
C26_DeletedStaysAbsentUntilCreated ==
    /\ call.op = "deleteUser" => ~Has(users, call.id)
    /\ \A id \in IdsOf(users) \ IdsOf(before) :
          call.op = "createUser" /\ ReturnedUser.id = id
    /\ (call.op = "getUser" /\ ~Has(before, call.id)) =>
          result = [error |-> "none", value |-> <<>>]
    /\ (call.op = "updateUser" /\ ~Has(before, call.id)) =>
          /\ result.error = "user with that id not found"
          /\ result.value = <<>>
          /\ users = before

\* The second of two updateUser in a row on the id of a seed user that was
\* deleted, on a store where a createUser has since assigned another id.
C26_Witness ==
    /\ call.op = "updateUser"
    /\ call.id = 2
    /\ repeated = "same"
    /\ ~Has(before, 2)
    /\ Has(before, 4)
    /\ result.error # "none"

\* getUser of the id of a deleted seed user returned undefined.
C26_WitnessGet ==
    /\ call.op = "getUser"
    /\ call.id = 3
    /\ ~Has(before, 3)
    /\ before # <<>>
    /\ result.value = <<>>

(* C27: updateUser with an empty patch on an id in the store does not      *)
(* fail, returns the stored user with that id, and leaves the whole store  *)
(* as it was.                                                              *)
C27_EmptyPatchChangesNothing ==
    (call.op = "updateUser" /\ DOMAIN call.dto = {} /\ Has(before, call.id)) =>
        /\ result.error = "none"
        /\ Len(result.value) = 1
        /\ \E i \in 1..Len(before) :
              /\ before[i].id = call.id
              /\ \A j \in 1..(i - 1) : before[j].id # call.id
              /\ result.value[1] = before[i]
        /\ users = before

\* updateUser with the empty patch ran on a user createUser had added.
C27_Witness ==
    /\ call.op = "updateUser"
    /\ DOMAIN call.dto = {}
    /\ ReturnsUser
    /\ ReturnedUser.name = "Alice"
    /\ Len(users) >= 2

(* C28: updateUser is idempotent: an updateUser(id, patch) made right      *)
(* after the same updateUser(id, patch) leaves the store as the first      *)
(* left it and has the same outcome, the same user returned or NotFound    *)
(* both times.                                                             *)
C28_UpdateTwiceIsUpdateOnce ==
    [][(call.op = "updateUser" /\ call' = call) =>
            (users' = users /\ result' = result)]_vars

\* The second of two updateUser in a row, the first having changed a user.
C28_Witness ==
    /\ call.op = "updateUser"
    /\ repeated = "changed"
    /\ ReturnsUser
    /\ ReturnedUser.age = 27

\* The second of two updateUser in a row on an id that is not in the store.
C28_WitnessMissing ==
    /\ call.op = "updateUser"
    /\ repeated = "same"
    /\ result.error # "none"

(* C29: the length of the list is 3 plus the number of createUser calls    *)
(* minus the number of deleteUser calls whose id was in the store: it is   *)
(* 3 at the start, every createUser adds 1, every deleteUser of an id in   *)
(* the store takes 1, and a deleteUser of a missing id, updateUser,        *)
(* getUser and getUsers leave it as it was.                                *)
C29_LengthCountsCreatesAndDeletes ==
    /\ call.op = "new" => Len(users) = 3
    /\ call.op = "createUser" => Len(users) = Len(before) + 1
    /\ call.op = "deleteUser" =>
          Len(users) = IF Has(before, call.id) THEN Len(before) - 1
                       ELSE Len(before)
    /\ call.op \in {"updateUser", "getUser", "getUsers"} =>
          Len(users) = Len(before)

====
